---------------------------- MODULE Spec2Model ----------------------------
(***************************************************************************)
(* Model of flutter_pub_cleaner.py: a linear, single-threaded batch that   *)
(* discovers Flutter projects under a parent folder, runs "flutter clean"  *)
(* in each, and reports the space reclaimed.                               *)
(*                                                                         *)
(* Python strings are sequences of one-character strings, so that          *)
(* startswith, strip, lower and the layout of a formatted size are         *)
(* computed rather than assumed.  Byte counts handed to format_size are    *)
(* signed numbers whose magnitude is a little-endian sequence of base-1024 *)
(* limbs, so that 1024^4 and beyond are representable.                     *)
(***************************************************************************)
EXTENDS Integers, Sequences, FiniteSets, TLC

VARIABLES
    pc,                 \* position of the single control flow
    use_fvm,            \* ToolInvocationMode, "unset" until chosen
    parent,             \* what the entered parent path refers to
    fs,                 \* the parent folder's content: [dirs, files], sets of paths
    listing,            \* the names os.listdir(parent_folder) yields, in its order
    flutter_projects,   \* discovered project names, in discovery order
    response,           \* the confirmation answer after strip().lower()
    cur,                \* number of projects whose loop iteration has completed
    size_before,        \* clean_flutter_project local
    size_after,         \* clean_flutter_project local
    result,             \* the CleanOutcome of the last clean_flutter_project call
    successful_cleans,
    failed_cleans,
    total_size_before,
    total_size_after,
    total_size_saved,
    out,                \* printed lines: [k: kind, n: number shown, s: its text]
    calls,              \* history: projects clean_flutter_project was called with
    runs,               \* history: [cmd, cwd] of every subprocess.run
    size_bytes,         \* format_size under test: its argument
    formatted           \* format_size under test: its return value

vars == <<pc, use_fvm, parent, fs, listing, flutter_projects, response, cur,
          size_before, size_after, result, successful_cleans, failed_cleans,
          total_size_before, total_size_after, total_size_saved, out, calls,
          runs, size_bytes, formatted>>

---------------------------------------------------------------------------
(* Numbers and strings                                                     *)

Base == 1024

NumUnits == 5

size_units == << <<"B">>, <<"K","B">>, <<"M","B">>, <<"G","B">>, <<"T","B">> >>

DigitChars == <<"0","1","2","3","4","5","6","7","8","9">>

RECURSIVE LimbsValue(_)
\* the number a little-endian limb sequence denotes (callers keep it below 2^31)
LimbsValue(mag) ==
    IF mag = <<>> THEN 0 ELSE mag[1] + Base * LimbsValue(Tail(mag))

RECURSIVE ToLimbs(_)
ToLimbs(n) ==
    IF n = 0 THEN <<>> ELSE <<n % Base>> \o ToLimbs(n \div Base)

\* a Python int as format_size receives it
PyInt(i) ==
    IF i < 0 THEN [neg |-> TRUE, mag |-> ToLimbs(-i)]
             ELSE [neg |-> FALSE, mag |-> ToLimbs(i)]

RECURSIVE DecDigits(_)
\* str(n) for n >= 0
DecDigits(n) ==
    IF n < 10 THEN <<DigitChars[n + 1]>>
              ELSE DecDigits(n \div 10) \o <<DigitChars[(n % 10) + 1]>>

TwoDigits(h) == <<DigitChars[(h \div 10) + 1], DigitChars[(h % 10) + 1]>>

---------------------------------------------------------------------------
(* format_size                                                             *)

\* size is the float of line 39: an exact dyadic rational, ip its integer
\* part (little-endian limbs), fp its fraction (limbs, most significant
\* first).  Dividing by 1024.0 is exact in binary floating point.
RECURSIVE ConvertLoopStrict(_, _, _)
ConvertLoopStrict(ip, fp, unit_index) ==
    IF /\ Len(ip) >= 2
       /\ ~(ip = <<0, 1>> /\ \A j \in 1..Len(fp) : fp[j] = 0)
       /\ unit_index < NumUnits - 1
        THEN ConvertLoopStrict(Tail(ip), <<ip[1]>> \o fp, unit_index + 1)
        ELSE [ip |-> ip, fp |-> fp, unit_index |-> unit_index]

RECURSIVE ConvertLoop(_, _, _)
\* lines 42-44
ConvertLoop(ip, fp, unit_index) ==
    IF Len(ip) >= 2 /\ unit_index < NumUnits - 1
        THEN ConvertLoop(Tail(ip), <<ip[1]>> \o fp, unit_index + 1)
        ELSE [ip |-> ip, fp |-> fp, unit_index |-> unit_index]

RECURSIVE FracTimes100(_)
\* fp * 100 as [carry: integer part, rest: remaining fraction limbs]
FracTimes100(fp) ==
    IF fp = <<>> THEN [carry |-> 0, rest |-> <<>>]
    ELSE LET lo == FracTimes100(Tail(fp))
             t  == fp[1] * 100 + lo.carry
         IN  [carry |-> t \div Base, rest |-> <<t % Base>> \o lo.rest]

\* compare a fraction with one half: -1 below, 0 equal, 1 above
CmpHalf(rest) ==
    IF rest = <<>> THEN -1
    ELSE IF rest[1] > Base \div 2 THEN 1
    ELSE IF rest[1] < Base \div 2 THEN -1
    ELSE IF \E j \in 2..Len(rest) : rest[j] # 0 THEN 1
    ELSE 0

\* f"{size:.2f}": correctly rounded to hundredths, ties to even
Fixed2(ip, fp) ==
    LET m  == FracTimes100(fp)
        c  == CmpHalf(m.rest)
        up == IF c > 0 \/ (c = 0 /\ m.carry % 2 = 1) THEN 1 ELSE 0
        h  == m.carry + up
        whole == LimbsValue(ip) + (IF h = 100 THEN 1 ELSE 0)
    IN  DecDigits(whole) \o <<".">> \o TwoDigits(h % 100)

format_size(b) ==
    IF b.mag = <<>> THEN <<"0", " ", "B">>
    ELSE IF b.neg
        \* a negative float never satisfies size >= 1024.0: unit stays B
        THEN <<"-">> \o DecDigits(LimbsValue(b.mag)) \o <<" ">> \o size_units[1]
    ELSE LET r == ConvertLoop(b.mag, <<>>, 0)
         IN  IF r.unit_index = 0
                THEN DecDigits(LimbsValue(r.ip)) \o <<" ">> \o size_units[1]
                ELSE Fixed2(r.ip, r.fp) \o <<" ">> \o size_units[r.unit_index + 1]


---------------------------------------------------------------------------
(* str.strip, str.lower, str.startswith                                    *)

RECURSIVE LStrip(_)
LStrip(s) == IF s # <<>> /\ Head(s) = " " THEN LStrip(Tail(s)) ELSE s

RECURSIVE RStrip(_)
RStrip(s) ==
    IF s # <<>> /\ s[Len(s)] = " " THEN RStrip(SubSeq(s, 1, Len(s) - 1)) ELSE s

Strip(s) == RStrip(LStrip(s))

LowerChar(c) ==
    CASE c = "Y" -> "y"
      [] c = "E" -> "e"
      [] c = "S" -> "s"
      [] c = "N" -> "n"
      [] OTHER   -> c

Lower(s) == [j \in 1..Len(s) |-> LowerChar(s[j])]

StartsWith(s, c) == s # <<>> /\ s[1] = c

---------------------------------------------------------------------------
(* The environment: operator input and the filesystem                      *)

MaxFiles == 1       \* files os.walk meets under one project
MaxAnswerLen == 3   \* characters typed at the confirmation prompt
MaxChoiceLen == 2   \* characters typed at the mode prompt

SeqsUpTo(S, n) == UNION {[1..m -> S] : m \in 0..n}

IsInjective(s) == \A a, b \in 1..Len(s) : s[a] = s[b] => a = b

PUBSPEC == <<"p","u","b","s","p","e","c",".","y","a","m","l">>
SUBDIR  == <<"l","i","b">>

Names == { <<"A">>, <<"B">>, <<".","h">>, <<"C",".","d">> }

\* the children a full run is explored with
RunNames == { <<"A">>, <<"B">> }

\* every order in which os.listdir can yield some of the names
Listings(names) ==
    {s \in SeqsUpTo(names, Cardinality(names)) : IsInjective(s)}

\* what a child of the parent folder can be
ChildKinds == {"file", "dir", "project", "nested"}

AnswerChars == {"y", "Y", "e", "E", "s", "S", " ", "n"}
ChoiceChars == {"1", "2", " ", "3"}
FileSizes == {40, 100}

\* the filesystem under the parent in which the children are of the kinds k
MakeFs(ls, k) ==
    [dirs  |-> {<<ls[j]>> : j \in {x \in 1..Len(ls) : k[x] # "file"}}
               \cup {<<ls[j], SUBDIR>> : j \in {x \in 1..Len(ls) : k[x] = "nested"}},
     files |-> {<<ls[j]>> : j \in {x \in 1..Len(ls) : k[x] = "file"}}
               \cup {<<ls[j], PUBSPEC>> : j \in {x \in 1..Len(ls) : k[x] = "project"}}
               \cup {<<ls[j], SUBDIR, PUBSPEC>> :
                        j \in {x \in 1..Len(ls) : k[x] = "nested"}}]

\* what os.walk meets under one project: each file's size, or ok = FALSE
\* for a file that vanished or cannot be read.  An unreadable root yields
\* the empty walk (os.walk swallows the error).
WalkEntries == [size : FileSizes, ok : {TRUE}] \cup {[size |-> 0, ok |-> FALSE]}
Walks == SeqsUpTo(WalkEntries, MaxFiles)

---------------------------------------------------------------------------
(* get_folder_size, is_flutter_project, discovery                          *)

RECURSIVE get_folder_size_sentinel(_)
get_folder_size_sentinel(walk) ==
    IF walk = <<>> THEN 0
    ELSE (IF Head(walk).ok THEN Head(walk).size ELSE -1)
         + get_folder_size_sentinel(Tail(walk))

RECURSIVE get_folder_size(_)
\* lines 6-27
get_folder_size(walk) ==
    IF walk = <<>> THEN 0
    ELSE (IF Head(walk).ok THEN Head(walk).size ELSE 0)
         + get_folder_size(Tail(walk))

PathExists(f, path) == path \in f.dirs \cup f.files

IsDir(f, path) == path \in f.dirs

is_flutter_project_deep(f, folder_path) ==
    \/ PathExists(f, folder_path \o <<PUBSPEC>>)
    \/ PathExists(f, folder_path \o <<SUBDIR, PUBSPEC>>)

\* lines 52-57
is_flutter_project(f, folder_path) == PathExists(f, folder_path \o <<PUBSPEC>>)

RECURSIVE Discover(_, _)
\* the loop of lines 196-210 over the listing
Discover(f, items) ==
    IF items = <<>> THEN <<>>
    ELSE LET item == Head(items)
             rest == Discover(f, Tail(items))
         IN  IF ~IsDir(f, <<item>>) THEN rest
             ELSE IF StartsWith(item, ".") THEN rest
             ELSE IF is_flutter_project(f, <<item>>) THEN <<item>> \o rest
             ELSE rest

---------------------------------------------------------------------------
(* Printed lines                                                           *)

Line(k) == [k |-> k, n |-> <<>>, s |-> <<>>]
LineN(k, n) == [k |-> k, n |-> <<n>>, s |-> <<>>]
\* a line showing format_size(n)
LineSize(k, n) == [k |-> k, n |-> <<n>>, s |-> format_size(PyInt(n))]

command_name(fvm) == IF fvm THEN "fvm flutter clean" ELSE "flutter clean"

command(fvm) == IF fvm THEN <<"fvm", "flutter", "clean">> ELSE <<"flutter", "clean">>

---------------------------------------------------------------------------
(* scan_and_clean_flutter_projects, one action per step of the workflow    *)

FailedOutcomeMeasured ==
    [success |-> FALSE, size_before |-> size_before, size_after |-> 0,
     size_saved |-> 0]

\* the CleanOutcome of lines 115-120 and 126-131
FailedOutcome == [success |-> FALSE, size_before |-> 0, size_after |-> 0,
                  size_saved |-> 0]

SuccessOutcomeSwapped(before, after) ==
    [success |-> TRUE, size_before |-> before, size_after |-> after,
     size_saved |-> after - before]

\* the CleanOutcome of lines 94 and 104-109
SuccessOutcome(before, after) ==
    [success |-> TRUE, size_before |-> before, size_after |-> after,
     size_saved |-> before - after]

\* the state when scan_and_clean_flutter_projects is entered; the statistics
\* of lines 238-242 are shown as 0 before they exist
InitRun ==
    /\ pc = "ask_fvm"
    /\ use_fvm = "unset"
    /\ parent = "unset"
    /\ flutter_projects = <<>>
    /\ response = <<"?">>
    /\ cur = 0
    /\ size_before = 0
    /\ size_after = 0
    /\ result = FailedOutcome
    /\ successful_cleans = 0
    /\ failed_cleans = 0
    /\ total_size_before = 0
    /\ total_size_after = 0
    /\ total_size_saved = 0
    /\ out = <<>>
    /\ calls = <<>>
    /\ runs = <<>>
    /\ size_bytes = PyInt(0)
    /\ formatted = <<>>

Init ==
    /\ InitRun
    /\ \E ls \in Listings(RunNames) :
         \E k \in [1..Len(ls) -> ChildKinds] :
            /\ listing = ls
            /\ fs = MakeFs(ls, k)

\* ask_fvm_preference, one pass of its while loop (lines 143-153)
AskFvmPreference ==
    /\ pc = "ask_fvm"
    /\ \E raw \in SeqsUpTo(ChoiceChars, MaxChoiceLen) :
         LET choice == Strip(raw) IN
           IF choice = <<"1">>
             THEN /\ use_fvm' = TRUE
                  /\ out' = Append(out, Line("using_fvm"))
                  /\ pc' = "ask_path"
           ELSE IF choice = <<"2">>
             THEN /\ use_fvm' = FALSE
                  /\ out' = Append(out, Line("using_flutter"))
                  /\ pc' = "ask_path"
           ELSE /\ out = <<>>   \* one invalid answer is explored
                /\ out' = Append(out, Line("invalid_choice"))
                /\ UNCHANGED <<use_fvm, pc>>
    /\ UNCHANGED <<parent, fs, listing, flutter_projects, response, cur,
                   size_before, size_after, result, successful_cleans,
                   failed_cleans, total_size_before, total_size_after,
                   total_size_saved, calls, runs, size_bytes, formatted>>

\* lines 166-187: the path prompt and its validation
AcquireParentPath ==
    /\ pc = "ask_path"
    /\ \E p \in {"empty", "missing", "file", "unlistable", "dir"} :
         /\ parent' = p
         /\ CASE p = "empty"   -> /\ out' = Append(out, Line("no_path"))
                                  /\ pc' = "done"
              [] p = "missing" -> /\ out' = Append(out, Line("not_exist"))
                                  /\ pc' = "done"
              [] p = "file"    -> /\ out' = Append(out, Line("not_directory"))
                                  /\ pc' = "done"
              [] OTHER         -> /\ out' = Append(out, Line("scanning"))
                                  /\ pc' = "discover"
    /\ UNCHANGED <<use_fvm, fs, listing, flutter_projects, response, cur,
                   size_before, size_after, result, successful_cleans,
                   failed_cleans, total_size_before, total_size_after,
                   total_size_saved, calls, runs, size_bytes, formatted>>

FoundLines(projects) == [j \in 1..Len(projects) |-> Line("found_project")]

\* lines 189-225: discovery, its two early returns, the count and command shown
DiscoverProjects ==
    /\ pc = "discover"
    /\ IF parent = "unlistable"
         THEN /\ out' = Append(out, Line("permission_denied"))
              /\ pc' = "done"
              /\ UNCHANGED flutter_projects
         ELSE LET found == Discover(fs, listing) IN
              /\ flutter_projects' = found
              /\ IF found = <<>>
                    THEN /\ out' = Append(out, Line("no_projects"))
                         /\ pc' = "done"
                    ELSE /\ out' = out \o FoundLines(found)
                                   \o <<LineN("found_count", Len(found)),
                                        Line(command_name(use_fvm))>>
                         /\ pc' = "confirm"
    /\ UNCHANGED <<use_fvm, parent, fs, listing, response, cur,
                   size_before, size_after, result, successful_cleans,
                   failed_cleans, total_size_before, total_size_after,
                   total_size_saved, calls, runs, size_bytes, formatted>>

IsAffirmativePrefix(answer) == StartsWith(answer, "y")

\* line 230: response in ['y', 'yes']
IsAffirmative(answer) == answer \in {<<"y">>, <<"y","e","s">>}

\* lines 228-242: the confirmation gate and the reset of the statistics
ConfirmOrAbort ==
    /\ pc = "confirm"
    /\ \E raw \in SeqsUpTo(AnswerChars, MaxAnswerLen) :
         /\ response' = Lower(Strip(raw))
         /\ IF ~IsAffirmative(response')
              THEN /\ out' = Append(out, Line("operation_cancelled"))
                   /\ pc' = "done"
              ELSE /\ out' = Append(out, Line("starting_cleanup"))
                   /\ pc' = "loop"
    /\ UNCHANGED <<successful_cleans, failed_cleans, total_size_before,
                   total_size_after, total_size_saved>>
    /\ UNCHANGED <<use_fvm, parent, fs, listing, flutter_projects, cur,
                   size_before, size_after, result, calls, runs,
                   size_bytes, formatted>>

---------------------------------------------------------------------------
(* The processing loop and clean_flutter_project                           *)

\* the for statement of line 245: the next project or the end of the loop
NextProject(projects, done) ==
    IF done < Len(projects) THEN "clean" ELSE "summary"

\* lines 245-247 and 64-68: the loop header and the call of clean_flutter_project
LoopStep ==
    /\ pc = "loop"
    /\ LET to == NextProject(flutter_projects, cur) IN
         IF to = "clean"
           THEN /\ calls' = Append(calls, flutter_projects[cur + 1])
                /\ out' = out \o <<LineN("processing", cur + 1), Line("cleaning")>>
                /\ pc' = "measure_before"
           ELSE /\ pc' = "summary"
                /\ UNCHANGED <<calls, out>>
    /\ size_before' = 0
    /\ size_after' = 0
    /\ UNCHANGED <<use_fvm, parent, fs, listing, flutter_projects, response, cur,
                   result, successful_cleans, failed_cleans, total_size_before,
                   total_size_after, total_size_saved, runs, size_bytes,
                   formatted>>

\* lines 70-73
MeasureBefore ==
    /\ pc = "measure_before"
    /\ \E walk \in Walks :
         /\ size_before' = get_folder_size(walk)
         /\ out' = Append(out, LineSize("size_before", size_before'))
    /\ pc' = "run"
    /\ UNCHANGED <<use_fvm, parent, fs, listing, flutter_projects, response, cur,
                   size_after, result, successful_cleans, failed_cleans,
                   total_size_before, total_size_after, total_size_saved, calls,
                   runs, size_bytes, formatted>>

\* where control goes when subprocess.run ends in the given way:
\* "ok" exit status 0, "nonzero" CalledProcessError (lines 111-120),
\* "notfound" FileNotFoundError (lines 121-131), "oserror" any other
\* exception, which no handler of clean_flutter_project catches
AfterRun(outcome) ==
    CASE outcome = "ok"       -> "measure_after"
      [] outcome = "nonzero"  -> "accumulate"
      [] outcome = "notfound" -> "accumulate"
      [] OTHER                -> "unexpected"

RunOutcomes == {"ok", "nonzero", "notfound", "oserror"}

\* lines 75-89 and the handlers of lines 111-131 and 283-284
RunCommand ==
    /\ pc = "run"
    /\ runs' = Append(runs, [cmd |-> command(use_fvm), cwd |-> calls[Len(calls)]])
    /\ \E outcome \in RunOutcomes :
         LET to == AfterRun(outcome)
             running == Line(command_name(use_fvm))
         IN  CASE to = "measure_after" ->
                    /\ out' = Append(out, running)
                    /\ pc' = "measure_after"
                    /\ UNCHANGED result
               [] to = "accumulate" ->
                    /\ out' = out \o <<running,
                                 Line(IF outcome = "nonzero" THEN "error_cleaning"
                                      ELSE IF use_fvm THEN "fvm_not_found"
                                      ELSE "flutter_not_found")>>
                    /\ result' = FailedOutcome
                    /\ pc' = "accumulate"
               [] OTHER ->
                    /\ out' = out \o <<running, Line("unexpected_error")>>
                    /\ pc' = "done"
                    /\ UNCHANGED result
    /\ UNCHANGED <<use_fvm, parent, fs, listing, flutter_projects, response, cur,
                   size_before, size_after, successful_cleans, failed_cleans,
                   total_size_before, total_size_after, total_size_saved, calls,
                   size_bytes, formatted>>

\* lines 91-109
MeasureAfter ==
    /\ pc = "measure_after"
    /\ \E walk \in Walks :
         /\ size_after' = get_folder_size(walk)
         /\ result' = SuccessOutcome(size_before, size_after')
         /\ out' = out \o <<LineSize("size_after", size_after'),
                            LineSize("space_saved", result'.size_saved),
                            Line("successfully_cleaned")>>
    /\ pc' = "accumulate"
    /\ UNCHANGED <<use_fvm, parent, fs, listing, flutter_projects, response, cur,
                   size_before, successful_cleans, failed_cleans,
                   total_size_before, total_size_after, total_size_saved, calls,
                   runs, size_bytes, formatted>>

AccumulateBreak ==
    /\ pc = "accumulate"
    /\ IF result.success
         THEN /\ successful_cleans' = successful_cleans + 1
              /\ UNCHANGED failed_cleans
              /\ pc' = "loop"
         ELSE /\ failed_cleans' = failed_cleans + 1
              /\ UNCHANGED successful_cleans
              /\ pc' = "summary"
    /\ total_size_before' = total_size_before + result.size_before
    /\ total_size_after' = total_size_after + result.size_after
    /\ total_size_saved' = total_size_saved + result.size_saved
    /\ cur' = cur + 1
    /\ UNCHANGED <<use_fvm, parent, fs, listing, flutter_projects, response,
                   size_before, size_after, result, out, calls, runs,
                   size_bytes, formatted>>

AccumulateMeasured ==
    /\ pc = "accumulate"
    /\ IF result.success
         THEN /\ successful_cleans' = successful_cleans + 1
              /\ UNCHANGED failed_cleans
         ELSE /\ failed_cleans' = failed_cleans + 1
              /\ UNCHANGED successful_cleans
    /\ total_size_before' = total_size_before + size_before
    /\ total_size_after' = total_size_after + result.size_after
    /\ total_size_saved' = total_size_saved + result.size_saved
    /\ cur' = cur + 1
    /\ pc' = "loop"
    /\ UNCHANGED <<use_fvm, parent, fs, listing, flutter_projects, response,
                   size_before, size_after, result, out, calls, runs,
                   size_bytes, formatted>>

\* lines 249-257
Accumulate ==
    /\ pc = "accumulate"
    /\ IF result.success
         THEN /\ successful_cleans' = successful_cleans + 1
              /\ UNCHANGED failed_cleans
         ELSE /\ failed_cleans' = failed_cleans + 1
              /\ UNCHANGED successful_cleans
    /\ total_size_before' = total_size_before + result.size_before
    /\ total_size_after' = total_size_after + result.size_after
    /\ total_size_saved' = total_size_saved + result.size_saved
    /\ cur' = cur + 1
    /\ pc' = "loop"
    /\ UNCHANGED <<use_fvm, parent, fs, listing, flutter_projects, response,
                   size_before, size_after, result, out, calls, runs,
                   size_bytes, formatted>>

---------------------------------------------------------------------------
(* The summary, interrupts, and the specification of a run                 *)

FailedLine(failed) == IF failed > 0 THEN <<LineN("failed", failed)>> ELSE <<>>

\* lines 260-270
PrintCounts ==
    /\ pc = "summary"
    /\ out' = out \o <<Line("summary_header"), Line(command_name(use_fvm)),
                       LineN("successful", successful_cleans)>>
                  \o FailedLine(failed_cleans)
                  \o <<LineN("total_projects", Len(flutter_projects)),
                       Line("space_header")>>
    /\ pc' = "summary_space"
    /\ UNCHANGED <<use_fvm, parent, fs, listing, flutter_projects, response, cur,
                   size_before, size_after, result, successful_cleans,
                   failed_cleans, total_size_before, total_size_after,
                   total_size_saved, calls, runs, size_bytes, formatted>>

\* the percentage line of lines 275-277: the operands of the division
ReductionLine(saved, before) ==
    IF before > 0 THEN <<[k |-> "reduction", n |-> <<saved, before>>, s |-> <<>>]>>
                  ELSE <<>>

\* lines 271-279
PrintSpace ==
    /\ pc = "summary_space"
    /\ out' = out \o <<LineSize("total_before", total_size_before),
                       LineSize("total_after", total_size_after),
                       LineSize("total_saved", total_size_saved)>>
                  \o ReductionLine(total_size_saved, total_size_before)
                  \o <<Line("summary_end")>>
    /\ pc' = "done"
    /\ UNCHANGED <<use_fvm, parent, fs, listing, flutter_projects, response, cur,
                   size_before, size_after, result, successful_cleans,
                   failed_cleans, total_size_before, total_size_after,
                   total_size_saved, calls, runs, size_bytes, formatted>>

\* lines 281-282: KeyboardInterrupt raised in the step about to be taken,
\* before it has printed or assigned anything
Interrupt ==
    /\ pc \notin {"done", "run"}
    /\ out' = Append(out, Line("cancelled_by_user"))
    /\ pc' = "done"
    /\ UNCHANGED <<use_fvm, parent, fs, listing, flutter_projects, response, cur,
                   size_before, size_after, result, successful_cleans,
                   failed_cleans, total_size_before, total_size_after,
                   total_size_saved, calls, runs, size_bytes, formatted>>

\* lines 82-89 and 281-282: KeyboardInterrupt while subprocess.run waits
InterruptRun ==
    /\ pc = "run"
    /\ runs' = Append(runs, [cmd |-> command(use_fvm), cwd |-> calls[Len(calls)]])
    /\ out' = out \o <<Line(command_name(use_fvm)), Line("cancelled_by_user")>>
    /\ pc' = "done"
    /\ UNCHANGED <<use_fvm, parent, fs, listing, flutter_projects, response, cur,
                   size_before, size_after, result, successful_cleans,
                   failed_cleans, total_size_before, total_size_after,
                   total_size_saved, calls, size_bytes, formatted>>

Next ==
    \/ AskFvmPreference
    \/ AcquireParentPath
    \/ DiscoverProjects
    \/ ConfirmOrAbort
    \/ LoopStep
    \/ MeasureBefore
    \/ RunCommand
    \/ MeasureAfter
    \/ Accumulate
    \/ PrintCounts
    \/ PrintSpace
    \/ Interrupt
    \/ InterruptRun

Spec == Init /\ [][Next]_vars

---------------------------------------------------------------------------
(* Discovery on its own, over every listing of the four names              *)

\* the states in which line 189 is reached
InitDiscover ==
    /\ pc = "discover"
    /\ use_fvm \in BOOLEAN
    /\ parent \in {"dir", "unlistable"}
    /\ \E ls \in Listings(Names) :
         \E k \in [1..Len(ls) -> ChildKinds] :
            /\ listing = ls
            /\ fs = MakeFs(ls, k)
    /\ flutter_projects = <<>>
    /\ response = <<"?">>
    /\ cur = 0
    /\ size_before = 0
    /\ size_after = 0
    /\ result = FailedOutcome
    /\ successful_cleans = 0
    /\ failed_cleans = 0
    /\ total_size_before = 0
    /\ total_size_after = 0
    /\ total_size_saved = 0
    /\ out = <<Line(IF use_fvm THEN "using_fvm" ELSE "using_flutter"),
               Line("scanning")>>
    /\ calls = <<>>
    /\ runs = <<>>
    /\ size_bytes = PyInt(0)
    /\ formatted = <<>>

NextDiscover == DiscoverProjects

SpecDiscover == InitDiscover /\ [][NextDiscover]_vars

---------------------------------------------------------------------------
(* format_size on its own                                                  *)

LimbVals == {0, 1, 128, 384, 512, 1023}

\* byte counts below 2^53, which float() of line 39 represents exactly:
\* up to NumUnits limbs, or one small limb more
ByteCounts ==
    {m \in SeqsUpTo(LimbVals, NumUnits) : m = <<>> \/ m[Len(m)] # 0}
    \cup {m \o <<1>> : m \in [1..NumUnits -> LimbVals]}

InitFormat ==
    /\ pc = "format"
    /\ \E m \in ByteCounts : size_bytes = [neg |-> FALSE, mag |-> m]
    /\ formatted = <<>>
    /\ use_fvm = "unset"
    /\ parent = "unset"
    /\ listing = <<>>
    /\ fs = MakeFs(<<>>, <<>>)
    /\ flutter_projects = <<>>
    /\ response = <<"?">>
    /\ cur = 0
    /\ size_before = 0
    /\ size_after = 0
    /\ result = FailedOutcome
    /\ successful_cleans = 0
    /\ failed_cleans = 0
    /\ total_size_before = 0
    /\ total_size_after = 0
    /\ total_size_saved = 0
    /\ out = <<>>
    /\ calls = <<>>
    /\ runs = <<>>

\* a call of format_size (lines 29-50)
FormatSize ==
    /\ pc = "format"
    /\ formatted' = format_size(size_bytes)
    /\ pc' = "formatted"
    /\ UNCHANGED <<use_fvm, parent, fs, listing, flutter_projects, response, cur,
                   size_before, size_after, result, successful_cleans,
                   failed_cleans, total_size_before, total_size_after,
                   total_size_saved, out, calls, runs, size_bytes>>

NextFormat == FormatSize

SpecFormat == InitFormat /\ [][NextFormat]_vars

---------------------------------------------------------------------------
(* Properties                                                              *)

HasLine(k) == \E j \in 1..Len(out) : out[j].k = k

LastLine == IF out = <<>> THEN "" ELSE out[Len(out)].k

Confirmed == IsAffirmative(response)

SummaryPrinted == pc = "done" /\ LastLine = "summary_end"

ToolErrorLines == {"error_cleaning", "fvm_not_found", "flutter_not_found"}

SizeLines == {"size_before", "size_after", "space_saved",
              "total_before", "total_after", "total_saved"}

RECURSIVE SumOver(_, _)
\* the sum of f[j] over the set J
SumOver(f, J) ==
    IF J = {} THEN 0
    ELSE LET j == CHOOSE x \in J : TRUE IN f[j] + SumOver(f, J \ {j})

\* positions of the "Size before" lines, and those whose project went on
\* to print a "Size after" line (the command exited 0)
BeforeAt == {j \in 1..Len(out) : out[j].k = "size_before"}
BeforeOkAt == {j \in BeforeAt : j + 2 <= Len(out) /\ out[j + 2].k = "size_after"}
ShownNumber == [j \in 1..Len(out) |-> IF out[j].n = <<>> THEN 0 ELSE out[j].n[1]]

\* C1: once the operator has confirmed, clean_flutter_project is called once
\* per discovered project, one at a time and in discovery order; a non-zero
\* exit or a missing executable leads to the next loop iteration, so the run
\* reaches the summary with every project processed unless an interrupt or
\* an unexpected error ends it.
C1_EveryProjectInOrder ==
    /\ Len(calls) <= Len(flutter_projects)
    /\ calls = SubSeq(flutter_projects, 1, Len(calls))
    /\ Len(calls) \in {cur, cur + 1}
    /\ Len(runs) <= Len(calls)
    /\ \A j \in 1..Len(runs) : runs[j].cwd = flutter_projects[j]
    /\ pc \in {"summary", "summary_space"} => calls = flutter_projects
    /\ SummaryPrinted => calls = flutter_projects /\ Len(runs) = Len(calls)
    /\ LastLine \in ToolErrorLines => pc \in {"accumulate", "loop", "summary"}
    /\ (pc = "done" /\ Confirmed /\ Len(calls) < Len(flutter_projects))
          => LastLine \in {"cancelled_by_user", "unexpected_error"}

\* the first of two projects failed, the second was still cleaned, and the
\* summary was printed
C1_Witness ==
    /\ SummaryPrinted
    /\ Len(flutter_projects) = 2
    /\ HasLine("error_cleaning")
    /\ failed_cleans = 1
    /\ result.success

\* C2: an unexpected condition raised by the invocation of the external
\* command never leaves clean_flutter_project: the top-level handler's
\* "unexpected error" message is never what follows the "Running" line.
C2_UnexpectedStaysInProject ==
    \A j \in 1..Len(out) :
        out[j].k = "unexpected_error" => out[j - 1].k \notin
            {command_name(TRUE), command_name(FALSE)}

\* C3: an answer other than "y" or "yes" (after strip and lower) means no
\* call of clean_flutter_project, no external command, no size measured or
\* shown and no summary; the run has ended with the cancellation message.
C3_ConfirmationGate ==
    (response # <<"?">> /\ response \notin {<<"y">>, <<"y","e","s">>}) =>
        /\ pc = "done"
        /\ LastLine = "operation_cancelled"
        /\ calls = <<>>
        /\ runs = <<>>
        /\ \A j \in 1..Len(out) :
              out[j].k \notin SizeLines \cup {"summary_header", "cleaning"}

\* the empty answer with two projects discovered
C3_Witness ==
    /\ response = <<>>
    /\ Len(flutter_projects) = 2
    /\ LastLine = "operation_cancelled"

\* C4 as stated: at the summary total_size_before is the sum of the
\* before-sizes measured for all processed projects, failed ones included.
C4_TotalBeforeIncludesFailed ==
    SummaryPrinted => total_size_before = SumOver(ShownNumber, BeforeAt)

\* C4 amended: at the summary, total_size_before is the sum of the
\* before-sizes of the successfully cleaned projects only (a failed project
\* adds 0 to every total), total_size_saved comes from the successful ones,
\* and the percentage is taken against that total_size_before; project 1
\* exiting 0 (100 to 40) and project 2 exiting non-zero give successful 1,
\* failed 1, total_size_before 100 and total_size_saved 60.
C4_TotalBeforeSuccessfulOnly ==
    SummaryPrinted =>
        /\ total_size_before = SumOver(ShownNumber, BeforeOkAt)
        /\ total_size_saved =
              SumOver(ShownNumber, {j \in 1..Len(out) : out[j].k = "space_saved"})
        /\ \A j \in 1..Len(out) :
              /\ out[j].k = "total_before" => out[j].n = <<total_size_before>>
              /\ out[j].k = "total_saved" => out[j].n = <<total_size_saved>>
              /\ out[j].k = "reduction" =>
                    out[j].n = <<total_size_saved, total_size_before>>
        /\ HasLine("reduction") <=> total_size_before > 0
        /\ (/\ Len(flutter_projects) = 2
            /\ \E j \in 1..Len(out) - 9 :
                  /\ out[j].k = "size_before" /\ out[j].n = <<100>>
                  /\ out[j + 2].k = "size_after" /\ out[j + 2].n = <<40>>
                  /\ out[j + 7].k = "size_before"
                  /\ out[j + 9].k = "error_cleaning")
           => /\ successful_cleans = 1
              /\ failed_cleans = 1
              /\ total_size_before = 100
              /\ total_size_saved = 60

\* project 1 went from 100 to 40, project 2 measured 40 and then failed
C4_Witness ==
    /\ SummaryPrinted
    /\ \E j \in 1..Len(out) - 9 :
          /\ out[j].k = "size_before" /\ out[j].n = <<100>>
          /\ out[j + 2].k = "size_after" /\ out[j + 2].n = <<40>>
          /\ out[j + 7].k = "size_before" /\ out[j + 7].n = <<40>>
          /\ out[j + 9].k = "error_cleaning"

\* C5: throughout the loop total_size_saved = total_size_before -
\* total_size_after and successful_cleans + failed_cleans is the number of
\* projects processed so far; at the summary the counts add up to the number
\* of discovered projects.
C5_BatchTotals ==
    /\ total_size_saved = total_size_before - total_size_after
    /\ successful_cleans + failed_cleans = cur
    /\ (pc \in {"summary", "summary_space"} \/ SummaryPrinted)
          => successful_cleans + failed_cleans = Len(flutter_projects)
    /\ \A j \in 1..Len(out) :
          out[j].k = "total_projects" =>
             /\ out[j].n = <<successful_cleans + failed_cleans>>
             /\ out[j].n = <<Len(flutter_projects)>>

\* two projects processed, one of each outcome, something saved
C5_Witness ==
    /\ pc = "loop"
    /\ cur = 2
    /\ successful_cleans = 1
    /\ failed_cleans = 1
    /\ total_size_saved # 0

\* C6: an interrupt ends the run with the "cancelled by user" message and
\* never leaves part of a summary printed before it.
C6_InterruptLeavesNoPartialSummary ==
    HasLine("cancelled_by_user") =>
        /\ pc = "done"
        /\ LastLine = "cancelled_by_user"
        /\ ~HasLine("summary_header")

\* C7: a failed outcome (non-zero exit or missing executable) is success
\* FALSE with the three sizes 0 although the before-size was measured and
\* shown; a successful outcome is success TRUE with size_saved = size_before
\* - size_after, negative or not.
C7_CleanOutcome ==
    pc = "accumulate" =>
        IF LastLine \in ToolErrorLines
          THEN /\ result = [success |-> FALSE, size_before |-> 0,
                            size_after |-> 0, size_saved |-> 0]
               /\ out[Len(out) - 2].k = "size_before"
               /\ out[Len(out) - 2].n = <<size_before>>
          ELSE /\ LastLine = "successfully_cleaned"
               /\ result.success
               /\ result.size_before = size_before
               /\ result.size_after = size_after
               /\ result.size_saved = size_before - size_after

\* a failure after 100 bytes were measured, following a success that grew
\* its project
C7_Witness ==
    /\ pc = "accumulate"
    /\ LastLine \in ToolErrorLines
    /\ size_before = 100
    /\ successful_cleans = 1
    /\ total_size_saved < 0

IsProjectChild(name) ==
    /\ <<name>> \in fs.dirs
    /\ name[1] # "."
    /\ <<name, PUBSPEC>> \in fs.files \cup fs.dirs

PositionIn(s, x) == CHOOSE j \in 1..Len(s) : s[j] = x

\* C8: discovery yields exactly the immediate children that are
\* directories, are not hidden and directly contain pubspec.yaml, in listing
\* order; a marker below the first level does not count.
C8_Discovery ==
    (pc # "discover" /\ parent = "dir") =>
        /\ \A j \in 1..Len(flutter_projects) :
              /\ \E i \in 1..Len(listing) : listing[i] = flutter_projects[j]
              /\ IsProjectChild(flutter_projects[j])
        /\ \A i \in 1..Len(listing) :
              IsProjectChild(listing[i]) =>
                 \E j \in 1..Len(flutter_projects) :
                    flutter_projects[j] = listing[i]
        /\ \A a, b \in 1..Len(flutter_projects) :
              a < b => PositionIn(listing, flutter_projects[a])
                         < PositionIn(listing, flutter_projects[b])
        /\ (pc = "done") <=> (flutter_projects = <<>>)
        /\ fs = MakeFs(<< <<"A">>, <<"B">>, <<".","h">>, <<"C",".","d">> >>,
                       <<"project", "dir", "project", "file">>)
              => flutter_projects = << <<"A">> >>

\* A is a project, .h a hidden directory with the marker, B has the marker
\* only one level down, C.d is a plain file: A alone is found
C8_Witness ==
    /\ pc = "confirm"
    /\ flutter_projects = << <<"A">> >>
    /\ Len(listing) = 4
    /\ <<<<".","h">>, PUBSPEC>> \in fs.files
    /\ <<<<"B">>, SUBDIR, PUBSPEC>> \in fs.files
    /\ << <<"C",".","d">> >> \in fs.files

IsDigit(c) == \E d \in 1..10 : DigitChars[d] = c

DigitVal(c) == (CHOOSE d \in 1..10 : DigitChars[d] = c) - 1

RECURSIVE ParseNat(_)
ParseNat(s) ==
    IF s = <<>> THEN 0
    ELSE 10 * ParseNat(SubSeq(s, 1, Len(s) - 1)) + DigitVal(s[Len(s)])

AllDigits(s) == s # <<>> /\ \A j \in 1..Len(s) : IsDigit(s[j])

Abs(x) == IF x < 0 THEN -x ELSE x

\* C9: format_size(0) is "0 B"; below 1024 it is the integer and " B";
\* otherwise the unit is the k-th of KB, MB, GB, TB for the largest k <= 4
\* with n >= 1024^k and the value n / 1024^k is shown with exactly two
\* decimal digits; 1023, 1024, 1536 and 1024^4 give the documented strings.
C9_FormatSize ==
    pc = "formatted" =>
        LET n == size_bytes.mag
            f == formatted
            L == Len(f)
            k == IF Len(n) - 1 < 4 THEN Len(n) - 1 ELSE 4
        IN  /\ n = <<>> => f = <<"0", " ", "B">>
            /\ Len(n) = 1 =>
                  /\ L >= 3
                  /\ SubSeq(f, L - 1, L) = <<" ", "B">>
                  /\ AllDigits(SubSeq(f, 1, L - 2))
                  /\ f[1] # "0"
                  /\ ParseNat(SubSeq(f, 1, L - 2)) = n[1]
            /\ Len(n) >= 2 =>
                  /\ L >= 7
                  /\ SubSeq(f, L - 1, L) =
                        << <<"K","B">>, <<"M","B">>, <<"G","B">>, <<"T","B">> >>[k]
                  /\ f[L - 2] = " "
                  /\ AllDigits(SubSeq(f, L - 4, L - 3))
                  /\ f[L - 5] = "."
                  /\ AllDigits(SubSeq(f, 1, L - 6))
                  /\ (L - 6 > 1 => f[1] # "0")
                  /\ LET h == 100 * ParseNat(SubSeq(f, 1, L - 6))
                                + ParseNat(SubSeq(f, L - 4, L - 3))
                         q == LimbsValue(SubSeq(n, k + 1, Len(n)))
                     IN  /\ 100 * q <= h
                         /\ h <= 100 * q + 100
                         /\ Len(n) = 2 =>
                               Abs(1024 * h - 100 * (n[1] + 1024 * n[2])) <= 512
            /\ n = <<1023>> => f = <<"1","0","2","3"," ","B">>
            /\ n = <<0, 1>> => f = <<"1",".","0","0"," ","K","B">>
            /\ n = <<512, 1>> => f = <<"1",".","5","0"," ","K","B">>
            /\ n = <<0, 0, 0, 0, 1>> => f = <<"1",".","0","0"," ","T","B">>

\* 1024^5 bytes stay in TB
C9_Witness ==
    /\ pc = "formatted"
    /\ size_bytes.mag = <<0, 0, 0, 0, 0, 1>>
    /\ formatted = <<"1","0","2","4",".","0","0"," ","T","B">>

\* C10 as stated: every byte count passed to format_size is non-negative.
C10_FormatArgsNonNegative ==
    \A j \in 1..Len(out) : out[j].k \in SizeLines => out[j].n[1] >= 0

\* C10 amended: the before-size, the after-size and the totals before and
\* after passed to format_size are non-negative; the space saved is
\* size_before - size_after and the total saved is total before - total
\* after, so each is negative exactly when the after figure exceeds the
\* before figure, and format_size then receives a negative count, which it
\* shows in bytes with a minus sign.
C10_FormatArgs ==
    \A j \in 1..Len(out) :
        /\ out[j].k \in {"size_before", "size_after", "total_before",
                         "total_after"} => out[j].n[1] >= 0
        /\ out[j].k = "space_saved" =>
              /\ out[j - 3].k = "size_before"
              /\ out[j - 1].k = "size_after"
              /\ out[j].n[1] = out[j - 3].n[1] - out[j - 1].n[1]
        /\ out[j].k = "total_saved" =>
              /\ out[j - 2].k = "total_before"
              /\ out[j - 1].k = "total_after"
              /\ out[j].n[1] = out[j - 2].n[1] - out[j - 1].n[1]
        /\ (out[j].k \in SizeLines /\ out[j].n[1] < 0) =>
              /\ out[j].s[1] = "-"
              /\ SubSeq(out[j].s, Len(out[j].s) - 1, Len(out[j].s)) = <<" ", "B">>
              /\ ParseNat(SubSeq(out[j].s, 2, Len(out[j].s) - 2)) = -out[j].n[1]

\* a project that grew from 40 to 100 bytes: "Space saved: -60 B", and a
\* negative total at the summary
C10_Witness ==
    /\ SummaryPrinted
    /\ total_size_saved < 0
    /\ \E j \in 1..Len(out) :
          /\ out[j].k = "space_saved"
          /\ out[j].n = <<-60>>
          /\ out[j].s = <<"-","6","0"," ","B">>

============================================================================
